---- MODULE Spec2Model ----
(***************************************************************************)
(* Model of src/main/main.cpp: app_main boots, waits for the WiFi station  *)
(* to report a connection, waits (bounded) for SNTP, then starts a task    *)
(* whose callback broadcasts the current time once per wall-clock second.  *)
(*                                                                         *)
(* Two contexts run: the main context (app_main) and the client task (the  *)
(* callback client_task_fn, called again by the task each time it          *)
(* returns).  The environment is the WiFi link, the SNTP service and the   *)
(* wall clock.                                                             *)
(*                                                                         *)
(* Time.  The wall clock is counted in ticks, TicksPerSec to the second,   *)
(* from the start of the second in which the client task first runs.  A   *)
(* time synchronization sets the clock, forward or back, and SNTP goes on  *)
(* synchronizing for as long as the program runs; before the task runs    *)
(* only the phase within the second is kept of that, after it the clock   *)
(* is followed from MaxBackSecs below its origin up to the horizon.  A    *)
(* sleep ends at its deadline or later, as the scheduler has it.  The     *)
(* main context's delays inside obtain_time are counted in milliseconds   *)
(* of uptime.                                                              *)
(*                                                                         *)
(* History.  The variables marked history record what the properties need *)
(* of the past and are read by no step of the program.  A run keeps the   *)
(* last invocation's, or all of them, or none (recording).                *)
(***************************************************************************)
EXTENDS Integers, Sequences, FiniteSets, TLC

VARIABLES
    num_connect_retries, \* WifiSta config: CONFIG_ESP_MAXIMUM_RETRY
    link,                \* WifiSta connection state
    attempts,            \* WifiSta retry counter
    assoc,               \* association attempts of the connection being made
    pcM,                 \* position of app_main
    sntp_started,        \* sntp_init() has been called
    sntp_status,         \* what sntp_get_sync_status() returns
    retry,               \* obtain_time: local retry
    uptime,              \* ms elapsed since obtain_time was entered
    pollTimes,           \* obtain_time: uptime at each read of the status
    seenReset,           \* obtain_time: reads of the status that gave RESET
    sawConnected,        \* history: is_connected() has returned true to app_main
    pcW,                 \* position of the client task's callback
    clock,               \* wall clock, in ticks
    now,                 \* client_task_fn: local now
    payload,             \* client_task_fn: local payload
    printed,             \* last line the client task wrote to the console
    sendOk,              \* what client_socket.send returned (discarded)
    next_send_time,      \* client_task_fn: local next_send_time
    socketUsers,         \* contexts that have touched client_socket, send_config
    sendsSinceSleep,     \* sends made since the task last slept (or started)
    prev,                \* history: the previous invocation: its clock reading
                         \* (start) and, where all history is kept, the ticks its
                         \* send took (dur)
    prev2Overrun,        \* history: the one before it took more than 1 s
    calm,                \* history: every send so far took less than 1 s and every
                         \* sleep ended within a tick of its deadline
    seenAligned,         \* history: an earlier invocation began on a boundary
    steppedBack,         \* history: the clock was set back between the end of the
                         \* last sleep and the reading that followed it
    recording            \* the history this run keeps: "none", "last" or "all"

mainVars == <<pcM, retry, uptime, pollTimes, seenReset, sawConnected>>
wifiVars == <<num_connect_retries, link, attempts, assoc>>
sntpVars == <<sntp_started, sntp_status>>
histVars == <<prev, prev2Overrun, calm, seenAligned, steppedBack,
             recording>>
taskVars == <<pcW, clock, now, payload, printed, sendOk, next_send_time,
             socketUsers, sendsSinceSleep>>
vars == <<mainVars, wifiVars, sntpVars, taskVars, histVars>>

(***************************************************************************)
(* Bounds of the model.                                                    *)
(***************************************************************************)
\* clock resolution: ticks in one second
TicksPerSec == 4
\* longest send, in ticks (1.5 s at 4 ticks per second)
MaxSendTicks == 6
\* the client task reads the clock only before this many seconds have passed
HorizonSecs == 3
\* the same, in the runs in which no synchronization moves the clock
SteadyHorizonSecs == 11
\* largest retry ceiling the WiFi station is configured with
MaxRetryCeiling == 2
\* the latest a sleep ends after its deadline, in ticks
MaxWakeLateTicks == 3
\* the furthest a time synchronization sets the clock forward or back, in ticks
MaxStepTicks == 5
\* how far below its origin the clock is followed once the task runs, in seconds
MaxBackSecs == 1

(***************************************************************************)
(* Program constants.                                                      *)
(***************************************************************************)
\* const int retry_count = 15;
retry_count == 15
\* vTaskDelay(2000 / portTICK_PERIOD_MS);
PollDelayMs == 2000

None == [start |-> -1, dur |-> -1]
NoPayload == [minute |-> -1, sec |-> -1, frac |-> -1]

Min(a, b) == IF a < b THEN a ELSE b

\* std::chrono::time_point_cast<std::chrono::seconds>(now): drops the part of
\* a second.  The ticks are counted from an origin that is a whole second of
\* a clock far past its epoch, so below the origin too it is the floor
last_second(t) == (t \div TicksPerSec) * TicksPerSec

\* fmt::format("{0:%FT%H:%M:}{1:%S}", now, now.time_since_epoch()): the date
\* and time down to the minute, then seconds of the minute with the fraction
FormatPayload(t) ==
    [minute |-> (t \div TicksPerSec) \div 60,
     sec    |-> (t \div TicksPerSec) % 60,
     frac   |-> t % TicksPerSec]

\* the payload handed to send: the callback captures nothing and formats the
\* clock reading alone, whatever the time-sync outcome was
PayloadSent(t, synced) == FormatPayload(t)

\* The spec's SyncStatus, read off the program: the wait in obtain_time is the
\* synchronization in progress; after it the status is what SNTP reports
SyncStatus ==
    IF pcM \in {"boot", "nvs_erase", "aborted", "init_wifi",
                "wait_check", "wait_sleep", "synchronizing"} THEN "Unsynced"
    ELSE IF pcM \in {"sync_poll", "sync_delay"} THEN "Syncing"
    ELSE IF sntp_status = "COMPLETED" THEN "Synced"
    ELSE "TimedOut"

Boot(keeps) ==
    /\ num_connect_retries \in 1..MaxRetryCeiling
    /\ link = "Disconnected"
    /\ attempts = 0
    /\ assoc = 0
    /\ pcM = "boot"
    /\ sntp_started = FALSE
    /\ sntp_status = "RESET"
    /\ retry = 0
    /\ uptime = 0
    /\ pollTimes = << >>
    /\ seenReset = 0
    /\ sawConnected = FALSE
    /\ pcW = "not_started"
    /\ clock \in 0..(TicksPerSec - 1)
    /\ now = 0
    /\ payload = NoPayload
    /\ printed = "nothing"
    /\ sendOk = TRUE
    /\ next_send_time = 0
    /\ socketUsers = {}
    /\ sendsSinceSleep = 0
    /\ prev = None
    /\ prev2Overrun = FALSE
    /\ calm = TRUE
    /\ seenAligned = FALSE
    /\ steppedBack = FALSE
    /\ recording = keeps

Init == Boot("last")

\* a history variable's next value, in the runs that keep it, of the last
\* invocation and of all of them
KeptLast(new, old) == IF recording \in {"last", "all"} THEN new ELSE old
KeptAll(new, old) == IF recording = "all" THEN new ELSE old

(***************************************************************************)
(* The WiFi station (espp::WifiSta), as the specification describes it.    *)
(***************************************************************************)
\* the station was started: the first association attempt
Wifi_Start ==
    /\ link = "Connecting"
    /\ assoc = 0
    /\ assoc' = 1
    /\ UNCHANGED <<num_connect_retries, link, attempts>>
    /\ UNCHANGED <<mainVars, sntpVars, taskVars, histVars>>

\* an attempt succeeded: address assigned, Connected
Wifi_GotIp ==
    /\ link = "Connecting"
    /\ assoc > 0
    /\ link' = "Connected"
    /\ attempts' = 0
    /\ assoc' = 0
    /\ UNCHANGED num_connect_retries
    /\ UNCHANGED <<mainVars, sntpVars, taskVars, histVars>>

\* slip: the budget test is <=, one re-attempt more
Wifi_Disconnected_OneMore ==
    /\ link = "Connecting"
    /\ assoc > 0
    /\ IF attempts <= num_connect_retries
         THEN /\ attempts' = attempts + 1
              /\ assoc' = assoc + 1
              /\ link' = link
         ELSE /\ link' = "Failed"
              /\ UNCHANGED <<attempts, assoc>>
    /\ UNCHANGED num_connect_retries
    /\ UNCHANGED <<mainVars, sntpVars, taskVars, histVars>>

\* an attempt failed: re-attempt while the retry budget lasts, else Failed
Wifi_Disconnected ==
    /\ link = "Connecting"
    /\ assoc > 0
    /\ IF attempts < num_connect_retries
         THEN /\ attempts' = attempts + 1
              /\ assoc' = assoc + 1
              /\ link' = link
         ELSE /\ link' = "Failed"
              /\ UNCHANGED <<attempts, assoc>>
    /\ UNCHANGED num_connect_retries
    /\ UNCHANGED <<mainVars, sntpVars, taskVars, histVars>>

is_connected == link = "Connected"

(***************************************************************************)
(* SNTP (esp_sntp), started in SNTP_OPMODE_POLL: from sntp_init on it      *)
(* synchronizes again and again.  Each time a server answers, the status   *)
(* is COMPLETED and the wall clock is set to the server's time, k ticks    *)
(* from what it read; the callback time_sync_notification_cb only logs.    *)
(***************************************************************************)
\* a synchronization that moves the clock under the running task
Moves(k) == k # 0 /\ pcW # "not_started"

Sntp_Sync(k) ==
    /\ sntp_started
    /\ sntp_status' = "COMPLETED"
    /\ clock' = IF pcW = "not_started" THEN (clock + k) % TicksPerSec
                ELSE clock + k
    /\ steppedBack' = KeptLast(steppedBack \/ (pcW = "read" /\ prev # None /\ k < 0),
                               steppedBack)
    /\ calm' = KeptAll(calm /\ ~Moves(k), calm)
    /\ UNCHANGED sntp_started
    /\ UNCHANGED <<pcW, now, payload, printed, sendOk, next_send_time,
                   socketUsers, sendsSinceSleep>>
    /\ UNCHANGED <<prev, prev2Overrun, seenAligned, recording>>
    /\ UNCHANGED <<mainVars, wifiVars>>

(***************************************************************************)
(* app_main.                                                               *)
(***************************************************************************)
\* the values nvs_flash_init() and nvs_flash_erase() return that the code tells
\* apart: ESP_OK, the two that call for an erase, and any other error
NvsResults == {"ESP_OK", "ESP_ERR_NVS_NO_FREE_PAGES",
               "ESP_ERR_NVS_NEW_VERSION_FOUND", "ESP_FAIL"}

\* ret == ESP_ERR_NVS_NO_FREE_PAGES || ret == ESP_ERR_NVS_NEW_VERSION_FOUND
NvsNeedsErase(ret) ==
    ret \in {"ESP_ERR_NVS_NO_FREE_PAGES", "ESP_ERR_NVS_NEW_VERSION_FOUND"}

\* ESP_ERROR_CHECK(x): abort() unless x is ESP_OK; in a build with NDEBUG the
\* macro evaluates x and drops it.  Where app_main is next
ESP_ERROR_CHECK(ndebug, x, next) ==
    IF x = "ESP_OK" \/ ndebug THEN next ELSE "aborted"

\* logger.info("Bootup"); esp_err_t ret = nvs_flash_init(); without the erase,
\* ESP_ERROR_CHECK(ret)
Main_NvsInit(ndebug, ret) ==
    /\ pcM = "boot"
    /\ pcM' = IF NvsNeedsErase(ret) THEN "nvs_erase"
              ELSE ESP_ERROR_CHECK(ndebug, ret, "init_wifi")
    /\ UNCHANGED <<retry, uptime, pollTimes, seenReset, sawConnected>>
    /\ UNCHANGED <<wifiVars, sntpVars, taskVars, histVars>>

\* logger.warn("Erasing NVS flash..."); ESP_ERROR_CHECK(nvs_flash_erase());
\* ret = nvs_flash_init(); ESP_ERROR_CHECK(ret)
Main_NvsErase(ndebug, erased, ret) ==
    /\ pcM = "nvs_erase"
    /\ pcM' = IF ESP_ERROR_CHECK(ndebug, erased, "erased") = "aborted" THEN "aborted"
              ELSE ESP_ERROR_CHECK(ndebug, ret, "init_wifi")
    /\ UNCHANGED <<retry, uptime, pollTimes, seenReset, sawConnected>>
    /\ UNCHANGED <<wifiVars, sntpVars, taskVars, histVars>>

\* espp::WifiSta wifi_sta({...}): the station starts connecting
Main_InitWifi ==
    /\ pcM = "init_wifi"
    /\ pcM' = "wait_check"
    /\ link' = "Connecting"
    /\ UNCHANGED <<retry, uptime, pollTimes, seenReset, sawConnected>>
    /\ UNCHANGED <<num_connect_retries, attempts, assoc>>
    /\ UNCHANGED <<sntpVars, taskVars, histVars>>

\* slip: the wait loop is left after one look, connected or not
Main_CheckConnected_NoWait ==
    /\ pcM = "wait_check"
    /\ pcM' = "synchronizing"
    /\ sawConnected' = (sawConnected \/ is_connected)
    /\ UNCHANGED <<retry, uptime, pollTimes, seenReset>>
    /\ UNCHANGED <<wifiVars, sntpVars, taskVars, histVars>>

\* while (!wifi_sta.is_connected()) {
Main_CheckConnected ==
    /\ pcM = "wait_check"
    /\ pcM' = IF is_connected THEN "synchronizing" ELSE "wait_sleep"
    /\ sawConnected' = (sawConnected \/ is_connected)
    /\ UNCHANGED <<retry, uptime, pollTimes, seenReset>>
    /\ UNCHANGED <<wifiVars, sntpVars, taskVars, histVars>>

\* slip: the wait gives up after one sleep and goes on to synchronize
Main_WaitSleep_Proceeds ==
    /\ pcM = "wait_sleep"
    /\ pcM' = "synchronizing"
    /\ UNCHANGED <<retry, uptime, pollTimes, seenReset, sawConnected>>
    /\ UNCHANGED <<wifiVars, sntpVars, taskVars, histVars>>

\*   logger.info("waiting for wifi connection..."); sleep_for(1s); }
Main_WaitSleep ==
    /\ pcM = "wait_sleep"
    /\ pcM' = "wait_check"
    /\ UNCHANGED <<retry, uptime, pollTimes, seenReset, sawConnected>>
    /\ UNCHANGED <<wifiVars, sntpVars, taskVars, histVars>>

\* logger.info("synchronizing..."); obtain_time(): initialize_sntp(); retry = 0
Main_InitSntp ==
    /\ pcM = "synchronizing"
    /\ pcM' = "sync_poll"
    /\ sntp_started' = TRUE
    /\ retry' = 0
    /\ uptime' = 0
    /\ pollTimes' = << >>
    /\ seenReset' = 0
    /\ UNCHANGED sawConnected
    /\ UNCHANGED sntp_status
    /\ UNCHANGED <<wifiVars, taskVars, histVars>>

\* slip: retry++ < retry_count, one more turn of the loop
RetryAllowed_PostIncrement(r) == r < retry_count

\* slip: the ceiling is not tested
RetryAllowed_NoCeiling(r) == TRUE

\* the loop condition's second operand: ++retry < retry_count
RetryAllowed(r) == r + 1 < retry_count

\* slip: the status is not tested, only the ceiling ends the loop
Main_SyncPoll_StatusNotTested ==
    /\ pcM = "sync_poll"
    /\ pollTimes' = Append(pollTimes, uptime)
    /\ seenReset' = seenReset + (IF sntp_status = "RESET" THEN 1 ELSE 0)
    /\ UNCHANGED sawConnected
    /\ retry' = retry + 1
    /\ pcM' = IF RetryAllowed(retry) THEN "sync_delay" ELSE "sync_ret"
    /\ UNCHANGED uptime
    /\ UNCHANGED <<wifiVars, sntpVars, taskVars, histVars>>

\* while (sntp_get_sync_status() == SNTP_SYNC_STATUS_RESET && ++retry < retry_count)
Main_SyncPoll ==
    /\ pcM = "sync_poll"
    /\ pollTimes' = Append(pollTimes, uptime)
    /\ seenReset' = seenReset + (IF sntp_status = "RESET" THEN 1 ELSE 0)
    /\ UNCHANGED sawConnected
    /\ IF sntp_status = "RESET"
         THEN /\ retry' = retry + 1
              /\ pcM' = IF RetryAllowed(retry) THEN "sync_delay" ELSE "sync_ret"
         ELSE /\ retry' = retry
              /\ pcM' = "sync_ret"
    /\ UNCHANGED uptime
    /\ UNCHANGED <<wifiVars, sntpVars, taskVars, histVars>>

\*   ESP_LOGI(...); vTaskDelay(2000 / portTICK_PERIOD_MS); }
Main_SyncDelay ==
    /\ pcM = "sync_delay"
    /\ pcM' = "sync_poll"
    /\ uptime' = uptime + PollDelayMs
    /\ UNCHANGED <<retry, pollTimes, seenReset, sawConnected>>
    /\ UNCHANGED <<wifiVars, sntpVars, taskVars, histVars>>

\* time(&now); localtime_r(&now, &timeinfo); } : obtain_time returns and its
\* locals are gone
Main_SyncReturn ==
    /\ pcM = "sync_ret"
    /\ pcM' = "start_task"
    /\ retry' = 0
    /\ uptime' = 0
    /\ pollTimes' = << >>
    /\ seenReset' = 0
    /\ UNCHANGED sawConnected
    /\ UNCHANGED <<wifiVars, sntpVars, taskVars, histVars>>

\* slip: the task is created and started before obtain_time is called
Main_StartTask_BeforeSync ==
    /\ pcM = "synchronizing"
    /\ pcW = "not_started"
    /\ pcM' = pcM
    /\ pcW' = "read"
    /\ UNCHANGED <<retry, uptime, pollTimes, seenReset, sawConnected>>
    /\ UNCHANGED <<clock, now, payload, printed, sendOk, next_send_time>>
    /\ UNCHANGED <<socketUsers, sendsSinceSleep>>
    /\ UNCHANGED <<wifiVars, sntpVars, histVars>>

\* espp::Task::make_unique({... .callback = client_task_fn ...}); client_task->start();
Main_StartTask ==
    /\ pcM = "start_task"
    /\ pcM' = "idle_read"
    /\ pcW' = "read"
    /\ UNCHANGED <<retry, uptime, pollTimes, seenReset, sawConnected>>
    /\ UNCHANGED <<clock, now, payload, printed, sendOk, next_send_time>>
    /\ UNCHANGED <<socketUsers, sendsSinceSleep>>
    /\ UNCHANGED <<wifiVars, sntpVars, histVars>>

\* slip: the idle loop's clock reading lands in the task's now (the callback
\* capturing by reference a variable of app_main)
Main_IdleRead_SharedNow ==
    /\ pcM = "idle_read"
    /\ pcM' = "idle_sleep"
    /\ now' = clock
    /\ UNCHANGED <<retry, uptime, pollTimes, seenReset, sawConnected>>
    /\ UNCHANGED <<pcW, clock, payload, printed, sendOk, next_send_time>>
    /\ UNCHANGED <<socketUsers, sendsSinceSleep>>
    /\ UNCHANGED <<wifiVars, sntpVars, histVars>>

\* while (true) { auto end = ...now(); float current_time = ...;
Main_IdleRead ==
    /\ pcM = "idle_read"
    /\ pcM' = "idle_sleep"
    /\ UNCHANGED <<retry, uptime, pollTimes, seenReset, sawConnected>>
    /\ UNCHANGED <<wifiVars, sntpVars, taskVars, histVars>>

\* slip: app_main returns after one turn of the idle loop, and its locals
\* (the task, the station) are destroyed
Main_IdleSleep_Returns ==
    /\ pcM = "idle_sleep"
    /\ pcM' = "returned"
    /\ UNCHANGED <<retry, uptime, pollTimes, seenReset, sawConnected>>
    /\ UNCHANGED <<wifiVars, sntpVars, taskVars, histVars>>

\*   std::this_thread::sleep_for(1s); }
Main_IdleSleep ==
    /\ pcM = "idle_sleep"
    /\ pcM' = "idle_read"
    /\ UNCHANGED <<retry, uptime, pollTimes, seenReset, sawConnected>>
    /\ UNCHANGED <<wifiVars, sntpVars, taskVars, histVars>>

(***************************************************************************)
(* client_task_fn, one call per iteration of the task.                     *)
(***************************************************************************)
\* a second boundary, to within one tick after it
Aligned(t) == t % TicksPerSec <= 1

\* a second boundary, to within one tick before or after it
NearBoundary(t) ==
    \/ t % TicksPerSec <= 1
    \/ TicksPerSec - (t % TicksPerSec) <= 1

\* (first call: the statics client_socket, multicast_group, multicast_port and
\* send_config are constructed;) auto now = high_resolution_clock::now();
\* payload = fmt::format(...); fmt::print("Sending current time '{}'\n", payload);
Task_ReadClockUntil(horizon) ==
    /\ pcW = "read"
    /\ clock < horizon * TicksPerSec
    /\ now' = clock
    /\ payload' = PayloadSent(clock, sntp_status = "COMPLETED")
    /\ printed' = "Sending current time"
    /\ pcW' = "send"
    /\ socketUsers' = socketUsers \cup {"task"}
    /\ UNCHANGED <<clock, sendOk, next_send_time, sendsSinceSleep>>
    /\ UNCHANGED <<mainVars, wifiVars, sntpVars, histVars>>

Task_ReadClock == Task_ReadClockUntil(HorizonSecs)

\* slip: a failed send is tried again at once, before any sleep
AfterSend_ResendOnFail(ok) == IF ok THEN "sleep" ELSE "send"

\* slip: a failed send ends the callback's loop (the error is propagated)
AfterSend_StopOnFail(ok) == IF ok THEN "sleep" ELSE "stopped"

\* where the callback goes after send returned ok
AfterSend(ok) == "sleep"

\* slip: the reading is rounded up to a second, not cut down, before 1s is added
NextSendTime_RoundedUp(t) ==
    (IF t % TicksPerSec = 0 THEN t ELSE last_second(t) + TicksPerSec) + TicksPerSec

\* slip: the second is not added, the deadline is the start of the reading's
\* own second
NextSendTime_SameSecond(t) == last_second(t)

\* slip: the deadline is now + 1s, the reading not cut down to its second
NextSendTime_NoTruncation(t) == t + TicksPerSec

\* the deadline: last_second + 1s
NextSendTime(t) == last_second(t) + TicksPerSec

\* client_socket.send(payload, send_config): blocks for d ticks and returns ok,
\* which is not looked at; then last_second and next_send_time are computed
Task_Send(d, ok) ==
    /\ pcW = "send"
    /\ clock' = clock + d
    /\ sendOk' = ok
    /\ next_send_time' = NextSendTime(now)
    /\ pcW' = AfterSend(ok)
    /\ socketUsers' = socketUsers \cup {"task"}
    /\ sendsSinceSleep' = sendsSinceSleep + 1
    /\ prev' = KeptLast([start |-> now, dur |-> KeptAll(d, 0)], prev)
    /\ prev2Overrun' = KeptAll(prev # None /\ prev.dur > TicksPerSec, prev2Overrun)
    /\ calm' = KeptAll(calm /\ d < TicksPerSec, calm)
    /\ seenAligned' = KeptAll(seenAligned \/ Aligned(now), seenAligned)
    /\ steppedBack' = FALSE
    /\ UNCHANGED <<now, payload, printed, recording>>
    /\ UNCHANGED <<mainVars, wifiVars, sntpVars>>

\* slip: a deadline that has passed is slept on for a whole second
WakeTimes_PastDeadlineSleeps(t, deadline) ==
    IF t >= deadline THEN {t + TicksPerSec}
    ELSE deadline..(deadline + MaxWakeLateTicks)

\* sleep_until(deadline), looking at the clock at time t: done when the
\* deadline has passed, else it sleeps for what is left, to the deadline or as
\* much later as the scheduler runs the thread.  The clock after that
WakeTimes(t, deadline) ==
    IF t >= deadline THEN {t}
    ELSE deadline..(deadline + MaxWakeLateTicks)

\* std::this_thread::sleep_until(next_send_time): a step of it.  The system
\* clock is not steady, so it looks at the clock again after it has slept, and
\* sleeps again if the clock was set back meanwhile; when it is done the
\* callback returns and the task calls it again
Task_SleepUntil ==
    /\ pcW = "sleep"
    /\ clock' \in WakeTimes(clock, next_send_time)
    /\ pcW' = IF clock >= next_send_time THEN "read" ELSE "sleep"
    /\ sendsSinceSleep' = IF clock >= next_send_time THEN 0 ELSE sendsSinceSleep
    /\ calm' = KeptAll(calm /\ (clock >= next_send_time \/ clock' <= next_send_time + 1),
                       calm)
    /\ UNCHANGED <<prev, prev2Overrun, seenAligned, steppedBack, recording>>
    /\ UNCHANGED <<now, payload, printed, sendOk, next_send_time, socketUsers>>
    /\ UNCHANGED <<mainVars, wifiVars, sntpVars>>

MainStep ==
    \/ \E ndebug \in BOOLEAN, ret \in NvsResults : Main_NvsInit(ndebug, ret)
    \/ \E ndebug \in BOOLEAN, erased \in NvsResults, ret \in NvsResults :
            Main_NvsErase(ndebug, erased, ret)
    \/ Main_InitWifi
    \/ Main_CheckConnected
    \/ Main_WaitSleep
    \/ Main_InitSntp
    \/ Main_SyncPoll
    \/ Main_SyncDelay
    \/ Main_SyncReturn
    \/ Main_StartTask
    \/ Main_IdleRead
    \/ Main_IdleSleep

TaskStep ==
    \/ Task_ReadClock
    \/ \E d \in 0..MaxSendTicks, ok \in BOOLEAN : Task_Send(d, ok)
    \/ Task_SleepUntil

\* the clock readings followed once the task runs
ClockKept(t) ==
    /\ t >= -(MaxBackSecs * TicksPerSec)
    /\ t <= HorizonSecs * TicksPerSec

EnvStep ==
    \/ Wifi_Start
    \/ Wifi_GotIp
    \/ Wifi_Disconnected
    \/ \E k \in (-MaxStepTicks)..MaxStepTicks :
            /\ Moves(k) => ClockKept(clock + k)
            /\ Sntp_Sync(k)

Next == MainStep \/ TaskStep \/ EnvStep

Spec == Init /\ [][Next]_vars

\* The same program in the runs in which every synchronization finds the
\* clock right and does not move it, run to a further horizon and keeping all
\* history, for the properties of the schedule that are stated of such runs.
TaskStepSteady ==
    \/ Task_ReadClockUntil(SteadyHorizonSecs)
    \/ \E d \in 0..MaxSendTicks, ok \in BOOLEAN : Task_Send(d, ok)
    \/ Task_SleepUntil

EnvStepSteady ==
    \/ Wifi_Start
    \/ Wifi_GotIp
    \/ Wifi_Disconnected
    \/ Sntp_Sync(0)

NextSteady == MainStep \/ TaskStepSteady \/ EnvStepSteady

SteadySpec == Boot("all") /\ [][NextSteady]_vars

\* The program as in Spec, with fairness, for the properties of progress: both
\* contexts are scheduled tasks that are never starved; the link and the time
\* servers owe nothing.  No history is kept.
FairSpec == Boot("none") /\ [][Next]_vars /\ WF_vars(MainStep) /\ WF_vars(TaskStep)

(***************************************************************************)
(* Properties.  An invocation has begun when pcW = "send": now holds the   *)
(* clock reading it began with, prev the invocation before it.             *)
(***************************************************************************)
Began == pcW = "send"

\* the end of the previous invocation's send, and its deadline
PrevEnd == prev.start + prev.dur
PrevDeadline == last_second(prev.start) + TicksPerSec

\* C1, as claimed: provided every send so far took less than one second (and
\* every sleep ended within a tick of its deadline, the clock not being moved),
\* every invocation after the first begins on a second boundary (to within a
\* tick), whatever the phase the first one began at.
C1_AlignedAfterFirst ==
    (Began /\ prev # None /\ calm) => NearBoundary(now)

\* C1, amended: the clock not being moved, and provided every send so far
\* took less than one second and every sleep ended within a tick of its
\* deadline, an invocation begins on a second boundary (to within a tick) once
\* an earlier invocation began on one, however many iterations lie between (no
\* drift); and in any case, when the previous send ended by its deadline, the
\* invocation begins at that deadline, a second boundary, or as late after it
\* as its sleep ended.
C1_AlignedOnceAligned ==
    /\ (Began /\ calm /\ seenAligned) => Aligned(now)
    /\ (Began /\ prev # None /\ PrevEnd <= PrevDeadline) =>
          /\ PrevDeadline % TicksPerSec = 0
          /\ now - PrevDeadline \in 0..MaxWakeLateTicks

\* C1 witness: several seconds into a run of sends each one tick short of a
\* second, begun off the boundary, the invocation begins on the boundary.
C1_Witness ==
    /\ Began /\ calm /\ seenAligned
    /\ prev.dur = TicksPerSec - 1
    /\ now >= 4 * TicksPerSec
    /\ Aligned(now)

\* the invocation begun was held up by its sleep alone: the previous send
\* ended by its deadline and the sleep ended later than a tick after it
HeldUpBySleep == PrevEnd <= PrevDeadline /\ now > PrevDeadline + 1

\* C2, as claimed: after a send of more than one second the next invocation
\* begins when that send ends, and if the send after it takes less than one
\* second the invocation after that begins on a second boundary (unless its
\* sleep held it up).
C2_ResumesAfterOverrun ==
    (Began /\ prev # None) =>
        /\ (prev.dur > TicksPerSec) => (PrevDeadline <= PrevEnd /\ now = PrevEnd)
        /\ (prev2Overrun /\ prev.dur < TicksPerSec) =>
              (NearBoundary(now) \/ HeldUpBySleep)

\* C2, amended: the clock not being moved, after a send of more than one
\* second the deadline has passed and the next invocation begins when that
\* send ends; if the send after it ends by the next second boundary (its own
\* deadline), the invocation after that begins on that second boundary (unless
\* its sleep held it up, and then within the latest a sleep ends).
C2_ResumesWhenSendEndsByDeadline ==
    (Began /\ prev # None) =>
        /\ (prev.dur > TicksPerSec) => (PrevDeadline <= PrevEnd /\ now = PrevEnd)
        /\ (prev2Overrun /\ PrevEnd <= PrevDeadline) =>
              /\ Aligned(now) \/ HeldUpBySleep
              /\ last_second(now) = PrevDeadline
              /\ now <= PrevDeadline + MaxWakeLateTicks

\* C2 witness: the invocation after an overrun began mid-second, its send
\* ended before the boundary, and this invocation is on the boundary.
C2_Witness ==
    /\ Began /\ prev2Overrun
    /\ prev.start % TicksPerSec = 2
    /\ prev.dur > 0 /\ PrevEnd < PrevDeadline
    /\ Aligned(now)

\* C3, as claimed: after a failed send, however long the streak, the next
\* invocation begins on a second boundary (to within a tick).
C3_FailedSendResumesOnBoundary ==
    (Began /\ prev # None /\ ~sendOk) => NearBoundary(now)

\* the clock values a step of the sleep can be looked for at
SleepEnds ==
    {clock - 1, clock, clock + 1}
        \cup (next_send_time - 1)..(next_send_time + MaxWakeLateTicks + 1)

\* C3, amended: a failed send does not stop the loop and changes nothing of
\* the schedule.  Whatever send returned, the callback goes on to compute the
\* deadline from its clock reading and to sleep; the sleep can always take its
\* step; it is done, leaving the clock as it is, exactly when the clock has
\* reached the deadline (at once when the send overran it), and else sleeps
\* to the deadline, a second boundary, or as late after it as the scheduler
\* wakes it; then the next invocation reads the clock, short of the horizon.
\* All this however long the streak of failures and wherever the clock is set
\* meanwhile.
C3_FailedSendKeepsLoop ==
    /\ [](pcW \in {"not_started", "read", "send", "sleep"})
    /\ [][(pcW = "send" /\ pcW' # pcW) =>
            /\ pcW' = "sleep"
            /\ now' = now
            /\ next_send_time' = last_second(now) + TicksPerSec]_vars
    /\ [](pcW = "sleep" =>
            /\ next_send_time = last_second(now) + TicksPerSec
            /\ ENABLED Task_SleepUntil
            /\ \A c \in SleepEnds :
                  /\ (ENABLED (Task_SleepUntil /\ pcW' = "read" /\ clock' = c))
                        <=> (clock >= next_send_time /\ c = clock)
                  /\ (ENABLED (Task_SleepUntil /\ pcW' = "sleep" /\ clock' = c))
                        <=> /\ clock < next_send_time
                            /\ c >= next_send_time
                            /\ c <= next_send_time + MaxWakeLateTicks)
    /\ [][(pcW = "sleep" /\ pcW' = "read") =>
            (clock >= next_send_time /\ clock' = clock)]_vars
    /\ []((pcW = "read" /\ ~sendOk /\ clock < HorizonSecs * TicksPerSec) =>
            ENABLED Task_ReadClock)
    /\ [][(pcW = "read" /\ pcW' = "send" /\ ~sendOk) => now' = clock]_vars

\* C3 witness: the invocation after a failed send, begun at the deadline of
\* the one before it, on a boundary.
C3_Witness ==
    /\ Began /\ prev # None /\ ~sendOk
    /\ now = next_send_time
    /\ Aligned(now)

\* C4: when SNTP never leaves RESET, obtain_time returns after exactly
\* retry_count reads of the status, each read at least the poll delay after
\* the one before, and the outcome is TimedOut.
C4_NeverSyncedPollsToCeiling ==
    (pcM = "sync_ret" /\ sntp_status = "RESET") =>
        /\ Len(pollTimes) = retry_count
        /\ \A i \in 2..Len(pollTimes) : pollTimes[i] - pollTimes[i-1] >= PollDelayMs
        /\ SyncStatus = "TimedOut"

\* C4 witness: obtain_time about to return with SNTP still in RESET.
C4_Witness ==
    /\ pcM = "sync_ret" /\ sntp_status = "RESET"
    /\ Len(pollTimes) = retry_count
    /\ pollTimes[retry_count] = (retry_count - 1) * PollDelayMs

\* C5: while the client task runs an iteration the sync status is Synced or
\* TimedOut, never Syncing (nor Unsynced).
C5_NoBroadcastWhileSyncing ==
    pcW # "not_started" => SyncStatus \in {"Synced", "TimedOut"}

\* C5 witness: the client task sending in the degraded (TimedOut) state.
C5_Witness == Began /\ SyncStatus = "TimedOut"

\* C6, as claimed: the payload being sent differs from the payload the same
\* clock reading would give under the other sync status (it carries a marker).
C6_PayloadMarksSyncStatus ==
    Began => \A s \in BOOLEAN :
        s # (sntp_status = "COMPLETED") => payload # PayloadSent(now, s)

\* C7, as claimed: once the connection has failed, the main context's next
\* look at the connection aborts; it does not go on waiting.
C7_ConnectFailureAborts ==
    [][(link = "Failed" /\ pcM = "wait_check" /\ pcM' # pcM) => pcM' = "aborted"]_vars

\* the client task is held at the horizon of the runs checked
AtHorizon == pcW = "read" /\ clock >= HorizonSecs * TicksPerSec

\* the clock is set back under the client task's sleep
SetBackAsleep == pcW = "sleep" /\ clock' < clock

\* the client task's send returns: one broadcast was attempted
Broadcasts == pcW = "send" /\ pcW' = "sleep"

\* C8, as claimed: under fair scheduling, whatever the time source does, a
\* run in which the link gets connected goes on broadcasting for ever (or
\* comes to the horizon of the runs checked again and again).
C8_BroadcastsWhateverTimeSource ==
    \/ <>[](link # "Connected")
    \/ []<><<Broadcasts>>_vars
    \/ []<>AtHorizon

\* C8, amended: whatever SNTP does (never synchronizing, synchronizing at any
\* moments and any number of times, setting the clock either way), the wait
\* in obtain_time makes at most retry_count reads of the status, and under
\* fair scheduling a run in which the link gets connected starts the client
\* task, also with SNTP still in RESET, and goes on broadcasting for ever (or
\* comes to the horizon of the runs checked again and again), unless the
\* clock is set back under the task's sleep again and again for ever: the
\* sleep ends only when the clock has reached its deadline.
C8_SyncCannotStallBoot ==
    /\ [](Len(pollTimes) <= retry_count)
    /\ \/ <>[](link # "Connected")
       \/ []<><<Broadcasts>>_vars
       \/ []<>AtHorizon
       \/ []<><<SetBackAsleep>>_vars

\* C8 witness: SNTP never synchronized, a send failed, and a later broadcast
\* is under way a second or more on.
C8_Witness ==
    /\ Began /\ ~sendOk /\ sntp_status = "RESET"
    /\ now >= TicksPerSec

\* C9: boot goes connect, sync, broadcast: SNTP is started and polled only
\* with the link connected, the main context reaches the start of the task
\* only after SNTP was started and polled, and the client task runs only
\* after obtain_time has returned and the main context has started it.
C9_BootOrder ==
    /\ (sntp_started \/ pollTimes # << >> \/ pcM \in {"sync_poll", "sync_delay", "sync_ret"})
          => link = "Connected"
    /\ pcM \in {"sync_ret", "start_task", "idle_read", "idle_sleep"} => sntp_started
    /\ pcW # "not_started" => pcM \in {"idle_read", "idle_sleep"}

\* C9 witness: polling SNTP with the link connected and the task not started.
C9_Witness ==
    /\ pcM = "sync_delay" /\ Len(pollTimes) = 3
    /\ link = "Connected" /\ pcW = "not_started"

\* C10, as claimed: after a failed send, and until the next broadcast is
\* attempted, the last record the client task wrote is one of the failure.
C10_FailedSendIsLogged ==
    (pcW \in {"sleep", "read"} /\ prev # None /\ ~sendOk)
        => printed = "send failed"

\* C11, as claimed: for every retry ceiling, a connection that ends in Failed
\* has made exactly that many association attempts, and Failed is final.
C11_ExactlyNAttempts ==
    /\ [](link = "Failed" => assoc = num_connect_retries)
    /\ [][link = "Failed" => link' = "Failed"]_vars

\* C11, amended: for every retry ceiling N, a connection that ends in Failed
\* has made the first association attempt and N re-attempts, N + 1 in all,
\* every one of which failed, and Failed is final.
C11_FirstAttemptPlusNRetries ==
    /\ [](link = "Failed" =>
            /\ attempts = num_connect_retries
            /\ assoc = num_connect_retries + 1)
    /\ [](link = "Connecting" => assoc <= num_connect_retries + 1)
    /\ [][link = "Failed" => link' = "Failed"]_vars

\* C11 witness: a ceiling of 2, the link Failed after 3 attempts, the main
\* context still waiting.
C11_Witness ==
    /\ link = "Failed" /\ num_connect_retries = 2 /\ assoc = 3
    /\ pcM = "wait_sleep"

\* C12: the socket and the send configuration are touched by the client task
\* alone; no step of the main context changes anything of the client task
\* (but for starting it), the idle loop in particular, and no step of the
\* client task changes anything of the main context.
C12_NoSharedMutableState ==
    /\ [](socketUsers \subseteq {"task"})
    /\ [][pcM' # pcM =>
            UNCHANGED <<clock, now, payload, printed, sendOk, next_send_time,
                        socketUsers, sendsSinceSleep, histVars>>]_vars
    /\ [][(pcM' # pcM /\ pcM \in {"idle_read", "idle_sleep"}) =>
            UNCHANGED <<taskVars, histVars>>]_vars
    /\ [][pcW' # pcW /\ pcW # "not_started" => UNCHANGED mainVars]_vars

\* C12 witness: the main context in its idle loop while the client task,
\* which has used the socket before, is in a send.
C12_Witness ==
    /\ pcM = "idle_sleep" /\ Began /\ prev # None
    /\ socketUsers = {"task"}

\* the clock reading a payload states
ReadingOf(p) == (p.minute * 60 + p.sec) * TicksPerSec + p.frac

\* C13: in every iteration the deadline slept until is the start of the second
\* holding the clock reading taken before the send, plus one second (the one
\* boundary later than the reading and at most a second after it), whatever
\* the send took and returned; the payload states that same reading.
C13_DeadlineFromReadingBeforeSend ==
    /\ (pcW \in {"send", "sleep"}) => ReadingOf(payload) = now
    /\ (pcW = "sleep") =>
          /\ prev.start = now
          /\ next_send_time % TicksPerSec = 0
          /\ next_send_time > now
          /\ next_send_time - now <= TicksPerSec

\* C13 witness: asleep after a failed send begun mid-second, the clock 1.5 s
\* on from the reading, the deadline already behind it.
C13_Witness ==
    /\ pcW = "sleep" /\ ~sendOk
    /\ now = 2 * TicksPerSec + 2 /\ clock = now + TicksPerSec + 2
    /\ next_send_time = 3 * TicksPerSec /\ clock > next_send_time

\* the delays obtain_time has made so far
Delays == uptime \div PollDelayMs

\* C14, as claimed: when obtain_time returns, it has made as many delays as it
\* saw the status unsynced, and no more than the ceiling.
C14_DelayPerUnsyncedRead ==
    (pcM = "sync_ret") => (Delays = seenReset /\ Delays <= retry_count)

\* C14, amended: obtain_time reads the status again only after reads that all
\* gave RESET, so it returns at the first other status (with no delay at all
\* if that is the first read); it has then made as many delays as it saw the
\* status unsynced, but for the read that reaches the ceiling, which is not
\* followed by a delay: retry_count unsynced reads make retry_count - 1 delays.
C14_DelayPerUnsyncedReadBelowCeiling ==
    /\ (pcM \in {"sync_poll", "sync_delay"}) => Len(pollTimes) = seenReset
    /\ (pcM = "sync_delay") => Delays = seenReset - 1
    /\ (pcM = "sync_ret") =>
          /\ Len(pollTimes) - seenReset \in {0, 1}
          /\ Len(pollTimes) = seenReset => seenReset = retry_count
          /\ seenReset = 0 => uptime = 0
          /\ Delays = Min(seenReset, retry_count - 1)
          /\ uptime = Delays * PollDelayMs
          /\ Delays = Len(pollTimes) - 1

\* C14 witness: SNTP completed during the third delay; obtain_time returns at
\* the fourth read, after three unsynced reads and three delays.
C14_Witness ==
    /\ pcM = "sync_ret" /\ sntp_status = "COMPLETED"
    /\ seenReset = 3 /\ Len(pollTimes) = 4 /\ Delays = 3

\* C15: the client task goes clock read, send, sleep, and round again; the
\* first reading is taken at the time the task was started, with no sleep
\* before it, whatever the phase; a send is made only from the position after
\* a reading, and exactly one send lies between a reading and the sleep.
C15_ReadSendSleepOrder ==
    /\ [][pcW' # pcW =>
            <<pcW, pcW'>> \in {<<"not_started", "read">>, <<"read", "send">>,
                               <<"send", "sleep">>, <<"sleep", "read">>}]_vars
    /\ [][(pcW = "not_started" /\ pcW' = "read") => clock' = clock]_vars
    /\ [][(pcW = "read" /\ pcW' = "send") => (now' = clock /\ clock' = clock)]_vars
    /\ [][sendsSinceSleep' > sendsSinceSleep => (pcW = "send" /\ pcW' = "sleep")]_vars
    /\ [](pcW = "sleep" => sendsSinceSleep = 1)
    /\ [](pcW \in {"not_started", "read", "send"} => sendsSinceSleep = 0)
    /\ []((Began /\ prev = None /\ sntp_status = "RESET") => now < TicksPerSec)

\* C15 witness: the first broadcast, begun in the middle of a second.
C15_Witness ==
    /\ Began /\ prev = None /\ sendsSinceSleep = 0
    /\ now = 2 /\ clock = 2 /\ sntp_status = "RESET"

\* C16: the clock not being set back between the end of a sleep and the
\* reading after it, an invocation never begins before the deadline of the
\* one before it, so the readings of two consecutive invocations lie in
\* strictly increasing seconds (at most one broadcast in a second), whatever
\* the sends took, however late the sleep ended, and however often and
\* wherever else the clock was set, back or forward.
C16_OneBroadcastPerSecond ==
    (Began /\ prev # None /\ ~steppedBack) =>
        /\ now >= PrevDeadline
        /\ last_second(now) > last_second(prev.start)

\* C16 witness: the previous invocation began a tick before a boundary and
\* this one begins on that boundary, in the next second.
C16_Witness ==
    /\ Began /\ prev # None /\ ~steppedBack
    /\ prev.start % TicksPerSec = TicksPerSec - 1
    /\ now = prev.start + 1

\* the main context is in its idle loop, inside app_main, whose locals (the
\* task, the station) are alive
InIdleLoop == pcM \in {"idle_read", "idle_sleep"}

\* C17: once the client task is started the main context is in its idle loop
\* and stays there, always with a next step to take, so app_main never returns
\* and its task and station are never destroyed; the client task, once
\* started, is always at a step of its callback and (short of the horizon of
\* the runs checked) has a next step: its loop has no final state.
C17_MainNeverReturns ==
    /\ [][InIdleLoop => InIdleLoop']_vars
    /\ [][pcW # "not_started" => pcW' \in {"read", "send", "sleep"}]_vars
    /\ [](pcW # "not_started" => (InIdleLoop /\ ENABLED MainStep))
    /\ []((pcW # "not_started" /\ clock < HorizonSecs * TicksPerSec)
            => ENABLED TaskStep)

\* C17 witness: two seconds into the broadcasts, a later one of them begun,
\* the main context is asleep in its idle loop.
C17_Witness ==
    /\ pcM = "idle_sleep"
    /\ Began /\ prev # None /\ now >= 2 * TicksPerSec

\* C18: the main context leaves the wait for the network only by a check that
\* finds the link connected: from the check it goes on to synchronize when
\* is_connected() is true and to the sleep when not, from the sleep only back
\* to the check; past the wait loop, and whenever SNTP has been started,
\* is_connected() has returned true before, which it does only for a connected
\* link.
C18_LeavesWaitOnlyWhenConnected ==
    /\ [][(pcM = "wait_check" /\ pcM' # pcM) =>
            pcM' = IF link = "Connected" THEN "synchronizing" ELSE "wait_sleep"]_vars
    /\ [][(pcM = "wait_sleep" /\ pcM' # pcM) => pcM' = "wait_check"]_vars
    /\ [](pcM \notin {"boot", "nvs_erase", "aborted", "init_wifi",
                      "wait_check", "wait_sleep"} => sawConnected)
    /\ [](sntp_started => sawConnected)
    /\ [](sawConnected => link = "Connected")

\* C18 witness: the main context has seen the link connected, left the wait
\* and started SNTP, no status of it read yet.
C18_Witness ==
    /\ pcM = "sync_poll" /\ sntp_started /\ sawConnected
    /\ link = "Connected" /\ pollTimes = << >>

====
